---- MODULE Spec2Model ----
(***************************************************************************)
(* Model of src/record-and-transcribe.tsx: the RecordingController         *)
(* registry, the Recording capture/transcription state machine, the        *)
(* AudioRecorder subprocess wrapper and the loadPastRecordings recovery.    *)
(*                                                                         *)
(* JavaScript runs every callback to completion, so one action is one      *)
(* callback (or one stretch of an async function between two awaits).      *)
(* Environment assumptions: the synchronous filesystem calls (mkdirSync,   *)
(* writeFileSync, appendFileSync) succeed; readFile fails exactly when the *)
(* file is absent; an empty log file and an absent one both recover        *)
(* nothing and are one case (log = << >>).                                 *)
(***************************************************************************)
EXTENDS Integers, Sequences, FiniteSets, TLC

----------------------------------------------------------------------------
(* Optional values: JavaScript undefined / null is None, a value v is      *)
(* Some(v).                                                                *)
None == << >>
Some(v) == << v >>
IsSome(o) == o # None
Get(o) == o[1]

\* JavaScript truthiness of an optional number: undefined and 0 are falsy.
Truthy(a) == IsSome(a) /\ Get(a) # 0

\* a || b on optional numbers (lines 360-362)
Or(a, b) == IF Truthy(a) THEN a ELSE b

----------------------------------------------------------------------------
(* Bounds of the model.                                                    *)
MaxRecordings == 2     \* startRecording() calls per run
MaxBuffers == 1        \* stdout data events per run
MaxChunks == 1         \* stream elements per run, full system
MaxStreamChunks == 2   \* stream elements per run, single Recording
MaxRetries == 1        \* Retry calls per run that start an attempt
MaxTicks == 1          \* milliseconds the clock advances per run
MaxFill == 10          \* recent filler entries in a recovery input log
MaxFree == 2           \* freely chosen lines of a recovery input log

\* Date.now() when the command starts: two days after the epoch of the model.
DayMs == 60 * 60 * 24 * 1000
StartTime == 2 * DayMs

----------------------------------------------------------------------------
(* UUIDv7 strings are sequences of characters.                             *)
HexDigits == << "0", "1", "2", "3", "4", "5", "6", "7",
                "8", "9", "a", "b", "c", "d", "e", "f" >>

IsHex(c) == \E i \in 1..16 : HexDigits[i] = c
HexVal(c) == (CHOOSE i \in 1..16 : HexDigits[i] = c) - 1

RECURSIVE ToHex(_, _)
\* n written with exactly w hexadecimal digits
ToHex(n, w) == IF w = 0 THEN << >>
               ELSE Append(ToHex(n \div 16, w - 1), HexDigits[(n % 16) + 1])

\* uuidv7(): 48 bits of Unix milliseconds, version 7, then a part that is
\* different for each call (n).
uuidv7(t, n) ==
    LET ts == ToHex(t, 12)
    IN  SubSeq(ts, 1, 8) \o << "-" >> \o SubSeq(ts, 9, 12) \o << "-", "7" >>
        \o ToHex(n, 3) \o << "-", "8" >> \o ToHex(0, 3) \o << "-" >> \o ToHex(n, 12)

\* uuid.replace(/-/g, "")
RemoveDashes(s) == SelectSeq(s, LAMBDA c : c # "-")

\* hex.substring(0, 12)
Substring12(s) == SubSeq(s, 1, IF Len(s) < 12 THEN Len(s) ELSE 12)

RECURSIVE HexPrefixLen(_)
HexPrefixLen(s) == IF s = << >> \/ ~IsHex(Head(s)) THEN 0
                   ELSE 1 + HexPrefixLen(Tail(s))

RECURSIVE HexValue(_)
HexValue(s) == IF s = << >> THEN 0
               ELSE 16 * HexValue(SubSeq(s, 1, Len(s) - 1)) + HexVal(s[Len(s)])

\* parseInt(s, 16): the value of the longest hexadecimal prefix, NaN (None)
\* when there is none.
ParseInt16(s) == LET n == HexPrefixLen(s)
                 IN  IF n = 0 THEN None ELSE Some(HexValue(SubSeq(s, 1, n)))

\* extractTimestampFromUUIDv7 (lines 51-59); None is NaN.
extractTimestampFromUUIDv7(uuid) == ParseInt16(Substring12(RemoveDashes(uuid)))

----------------------------------------------------------------------------
(* JSON lines of the log.  An object is a function from its property names *)
(* to their values; a line either parses to an object or is malformed.     *)

\* obj.k, undefined (None) when the object has no such property
Prop(obj, k) == IF k \in DOMAIN obj THEN Some(obj[k]) ELSE None

\* JSON.stringify(o) + "\n": properties whose value is undefined are left out
JSONStringify(o) ==
    [parses |-> TRUE,
     value  |-> [k \in {j \in DOMAIN o : IsSome(o[j])} |-> Get(o[k])]]

\* JSON.parse(line): None when it throws
JSONParse(line) == IF line.parses THEN Some(line.value) ELSE None

MalformedLine == [parses |-> FALSE, value |-> << >>]

\* entry.createdAt ?? extractTimestampFromUUIDv7(entry.recordingId)
\* (lines 186, 196-197, 287): a number, NaN, or a TypeError when recordingId
\* is not a string.
Timestamp(entry) ==
    IF IsSome(Prop(entry, "createdAt"))
    THEN [kind |-> "number", n |-> entry.createdAt]
    ELSE IF ~IsSome(Prop(entry, "recordingId"))
    THEN [kind |-> "throw", n |-> 0]
    ELSE LET t == extractTimestampFromUUIDv7(entry.recordingId)
         IN  IF IsSome(t) THEN [kind |-> "number", n |-> Get(t)]
             ELSE [kind |-> "NaN", n |-> 0]

----------------------------------------------------------------------------
VARIABLES
    now,                \* Date.now()
    uuidCalls,          \* number of uuidv7() calls so far
    state,              \* RecordingController.$state
    view,               \* the list last rendered from $list: what the user can act on
    recordings,         \* the Recording objects: id, key, createdAt, options
    status,             \* Recording.$status, per object
    transcriptionState, \* Recording.$transcription, per object
    abortSignal,        \* Recording.abortController.signal.aborted, per object
    recorder,           \* Recording.recorder (AudioRecorder), per object
    frames,             \* running transcribe() calls, per object
    hist,               \* history of the current or last attempt, per object
    log,                \* the lines of LOG_PATH
    txtFiles,           \* /tmp/vxg/<id>.txt
    mp3Files,           \* /tmp/vxg/<id>.mp3
    loader              \* the loadPastRecordings call

vars == << now, uuidCalls, state, view, recordings, status, transcriptionState,
           abortSignal, recorder, frames, hist, log, txtFiles, mp3Files, loader >>

objectVars == << recordings, status, transcriptionState, abortSignal, recorder,
                 frames, hist >>
diskVars == << log, txtFiles, mp3Files >>

Objects == 1..Len(recordings)
FreshObjects == {h \in Objects : recordings[h].fresh}

\* Buffer.concat(this.buffers).length (lines 446-448)
RECURSIVE Sum(_)
Sum(s) == IF s = << >> THEN 0 ELSE Head(s) + Sum(Tail(s))
getBuffer(h) == Sum(Get(recorder[h]).buffers)

mp3Path(h) == recordings[h].id
txtPath(h) == recordings[h].id

Write(files, path, content) == (path :> content) @@ files
Exists(files, path) == path \in DOMAIN files

\* attempts: attempts started; audioWritten: the audio file held the captured
\* buffer when the last one started; chunks: the elements its stream delivered;
\* io: the file operations it made, in order; outcome: "none", "running", "ok"
\* or "error"; ended: attempts whose stream ended normally; delivered: elements
\* delivered in all attempts.
NoHistory == [attempts |-> 0, audioWritten |-> FALSE, chunks |-> << >>,
              io |-> << >>, outcome |-> "none", ended |-> 0, delivered |-> 0]

----------------------------------------------------------------------------
(* Clock and rendering.                                                    *)

\* Date.now(), or the clock read inside uuidv7(): the clock has not gone back
\* since it was last read.
ReadClock ==
    \E dt \in 0..MaxTicks :
        /\ now + dt - StartTime <= MaxTicks
        /\ now' = now + dt

\* useStore(controller.$list) (lines 120-162, 453): the rendered list catches up
\* with $state; until it does the user acts on the list rendered before.
Rendered(st) == [currentRecording  |-> st.currentRecording,
                 stoppedRecordings |-> st.stoppedRecordings]

Render ==
    /\ view # Rendered(state)
    /\ view' = Rendered(state)
    /\ UNCHANGED << now, uuidCalls, state, objectVars, diskVars, loader >>

InList(st, h) == \E i \in 1..Len(st.stoppedRecordings) : st.stoppedRecordings[i] = h

----------------------------------------------------------------------------
(* RecordingController.startRecording (lines 90-111) with the fresh branch *)
(* of the Recording constructor (lines 262-276) and the AudioRecorder      *)
(* constructor (lines 415-445).                                            *)

NewRecording == [id        |-> uuidv7(now', uuidCalls),
                 key       |-> state.recordingItemKey,
                 createdAt |-> now',
                 fresh     |-> TRUE]

NewAudioRecorder == [child |-> "running", buffers |-> << >>, sigints |-> 0]

startRecording ==
    /\ ReadClock
    /\ recordings' = Append(recordings, NewRecording)
    /\ uuidCalls' = uuidCalls + 1
    /\ status' = Append(status, "recording")
    /\ transcriptionState' = Append(transcriptionState, None)
    /\ abortSignal' = Append(abortSignal, FALSE)
    /\ recorder' = Append(recorder, Some(NewAudioRecorder))
    /\ frames' = Append(frames, << >>)
    /\ hist' = Append(hist, NoHistory)
    /\ state' = [state EXCEPT !.currentRecording = Some(Len(recordings) + 1)]

\* The "Start Recording" action of the recording item (lines 135-139)
StartRecording ==
    /\ ~IsSome(view.currentRecording)
    /\ startRecording
    /\ UNCHANGED << view, diskVars, loader >>

----------------------------------------------------------------------------
(* Recording.stop (lines 310-316)                                          *)

\* abortController?.abort(): the first abort() of a controller sets
\* signal.aborted and runs the listener of lines 437-439, which sends SIGINT
\* to the child; a later abort() does nothing (AbortController).
abort(h) ==
    IF ~recordings[h].fresh \/ abortSignal[h]
    THEN UNCHANGED << abortSignal, recorder >>
    ELSE /\ abortSignal' = [abortSignal EXCEPT ![h] = TRUE]
         /\ recorder' = [recorder EXCEPT ![h] =
                Some([Get(@) EXCEPT !.sigints =
                        IF Get(recorder[h]).child = "running" THEN @ + 1 ELSE @])]

\* Mutants of the guard of line 311
stopUnlessStopping(h) == status[h] # "stopping"
stopAlways(h) == TRUE

\* line 311
stopMayProceed(h) == status[h] = "recording"

stop(h) ==
    IF ~stopMayProceed(h)
    THEN UNCHANGED << status, abortSignal, recorder >>
    ELSE /\ status' = [status EXCEPT ![h] = "stopping"]
         /\ abort(h)

\* The "Stop Recording" action of the recording item (lines 135-139)
Stop(h) ==
    /\ view.currentRecording = Some(h)
    /\ stop(h)
    /\ UNCHANGED << now, uuidCalls, state, view, recordings, transcriptionState,
                    frames, hist, diskVars, loader >>

----------------------------------------------------------------------------
(* AudioRecorder: child.stdout.on("data") (lines 434-436)                  *)

DataSizes == {128000 \div 8}

\* stdout data events so far, of all captures
RECURSIVE DataEventsOf(_)
DataEventsOf(rs) ==
    IF rs = << >> THEN 0
    ELSE (IF IsSome(Head(rs)) THEN Len(Get(Head(rs)).buffers) ELSE 0) + DataEventsOf(Tail(rs))
DataEvents == DataEventsOf(recorder)

StdoutData(h, bytes) ==
    /\ recordings[h].fresh
    /\ Get(recorder[h]).child = "running"
    /\ DataEvents < MaxBuffers
    /\ recorder' = [recorder EXCEPT ![h] =
            Some([Get(@) EXCEPT !.buffers = Append(@, bytes)])]
    /\ UNCHANGED << now, uuidCalls, state, view, recordings, status,
                    transcriptionState, abortSignal, frames, hist, diskVars, loader >>

----------------------------------------------------------------------------
(* Recording.transcribe (lines 317-407)                                    *)

\* buffer.length / (128000 / 8), as numerator and denominator
audioLengthSeconds(length) == [num |-> length, den |-> 128000 \div 8]

\* Mutant of the guard of lines 318-320: no guard
transcribeAlways(h) == TRUE

\* lines 318-320: return while an attempt is unfinished
transcribeMayProceed(h) ==
    ~(IsSome(transcriptionState[h]) /\ ~Get(transcriptionState[h]).finished)

\* Mutant of lines 327-336: the counters of the attempt before are kept
InProgressKeepsCounters(h) ==
    [finished           |-> FALSE,
     transcription      |-> << >>,
     error              |-> None,
     latestThought      |-> None,
     inputTokens        |-> IF IsSome(transcriptionState[h])
                            THEN Get(transcriptionState[h]).inputTokens ELSE None,
     outputTokens       |-> IF IsSome(transcriptionState[h])
                            THEN Get(transcriptionState[h]).outputTokens ELSE None,
     thoughtsTokens     |-> IF IsSome(transcriptionState[h])
                            THEN Get(transcriptionState[h]).thoughtsTokens ELSE None,
     audioLengthSeconds |-> Some(audioLengthSeconds(getBuffer(h)))]

\* lines 327-336
InProgress(h) ==
    [finished           |-> FALSE,
     transcription      |-> << >>,
     error              |-> None,
     latestThought      |-> None,
     inputTokens        |-> None,
     outputTokens       |-> None,
     thoughtsTokens     |-> None,
     audioLengthSeconds |-> Some(audioLengthSeconds(getBuffer(h)))]

\* transcribe() up to its first await (lines 317-339).  audio is the content
\* of the mp3 files when the call is made.
transcribe(h, audio) ==
    IF ~transcribeMayProceed(h) \/ ~IsSome(recorder[h])
    THEN UNCHANGED << transcriptionState, frames, hist >>
    ELSE /\ transcriptionState' = [transcriptionState EXCEPT ![h] = Some(InProgress(h))]
         /\ frames' = [frames EXCEPT ![h] =
                Append(@, [pc |-> "await", transcription |-> << >>])]
         /\ hist' = [hist EXCEPT ![h] =
                [attempts     |-> @.attempts + 1,
                 audioWritten |-> /\ Exists(audio, mp3Path(h))
                                  /\ audio[mp3Path(h)] = getBuffer(h),
                 chunks       |-> << >>,
                 io           |-> << >>,
                 outcome      |-> "running",
                 ended        |-> @.ended,
                 delivered    |-> @.delivered]]

\* Attempts that a Retry started
RECURSIVE RetriesOf(_)
RetriesOf(hs) ==
    IF hs = << >> THEN 0
    ELSE (IF Head(hs).attempts > 1 THEN Head(hs).attempts - 1 ELSE 0) + RetriesOf(Tail(hs))
Retries == RetriesOf(hist)

\* Stream elements delivered so far, to all Recordings
RECURSIVE DeliveredOf(_)
DeliveredOf(hs) == IF hs = << >> THEN 0 ELSE Head(hs).delivered + DeliveredOf(Tail(hs))
Delivered == DeliveredOf(hist)

\* The "Retry" action of a stopped recording's item (lines 568-576)
Retry(h) ==
    /\ InList(view, h)
    /\ (transcribeMayProceed(h) /\ IsSome(recorder[h])) => Retries < MaxRetries
    /\ transcribe(h, mp3Files)
    /\ UNCHANGED << now, uuidCalls, state, view, recordings, status, abortSignal,
                    recorder, diskVars, loader >>

\* await transcribe(buffer) resolves with the stream (line 339)
StreamOpen(h, i) ==
    /\ i \in 1..Len(frames[h])
    /\ frames[h][i].pc = "await"
    /\ frames' = [frames EXCEPT ![h][i].pc = "stream"]
    /\ UNCHANGED << now, uuidCalls, state, view, recordings, status,
                    transcriptionState, abortSignal, recorder, hist, diskVars, loader >>

\* Mutant of lines 351-353: = for +=
ReplaceText(transcription, text) ==
    IF IsSome(text) /\ Get(text) # << >> THEN Get(text) ELSE transcription

\* if (chunk.text) transcription += chunk.text (lines 351-353); "" is falsy
AppendText(transcription, text) ==
    IF IsSome(text) /\ Get(text) # << >> THEN transcription \o Get(text)
    ELSE transcription

\* lines 354-364
Merged(currentState, transcription, chunk) ==
    [finished           |-> FALSE,
     transcription      |-> transcription,
     error              |-> None,
     latestThought      |-> chunk.thought,
     inputTokens        |-> Or(chunk.promptTokenCount, currentState.inputTokens),
     outputTokens       |-> Or(chunk.candidatesTokenCount, currentState.outputTokens),
     thoughtsTokens     |-> Or(chunk.thoughtsTokenCount, currentState.thoughtsTokens),
     audioLengthSeconds |-> currentState.audioLengthSeconds]

\* One turn of the for await loop (lines 340-365).  chunk.thought is the title
\* the loop of lines 342-350 finds in the chunk's thought parts.
StreamChunk(h, i, chunk) ==
    /\ i \in 1..Len(frames[h])
    /\ frames[h][i].pc = "stream"
    /\ LET transcription == AppendText(frames[h][i].transcription, chunk.text)
       IN  /\ frames' = [frames EXCEPT ![h][i].transcription = transcription]
           /\ transcriptionState' = [transcriptionState EXCEPT ![h] =
                  Some(Merged(Get(@), transcription, chunk))]
    /\ hist' = [hist EXCEPT ![h].chunks = Append(@, chunk),
                            ![h].delivered = @ + 1]
    /\ UNCHANGED << now, uuidCalls, state, view, recordings, status, abortSignal,
                    recorder, diskVars, loader >>

\* lines 367-376 and 394-403
Finished(finalState, transcription, error) ==
    [finished           |-> TRUE,
     transcription      |-> transcription,
     error              |-> error,
     latestThought      |-> None,
     inputTokens        |-> finalState.inputTokens,
     outputTokens       |-> finalState.outputTokens,
     thoughtsTokens     |-> finalState.thoughtsTokens,
     audioLengthSeconds |-> finalState.audioLengthSeconds]

\* Mutant of lines 382-390: the list key for the id
LogEntryWithKey(h, finalState, transcription) ==
    [recordingId         |-> Some(recordings[h].key),
     createdAt           |-> Some(recordings[h].createdAt),
     audioLengthSeconds  |-> finalState.audioLengthSeconds,
     inputTokens         |-> finalState.inputTokens,
     outputTokens        |-> finalState.outputTokens,
     thoughtsTokens      |-> finalState.thoughtsTokens,
     transcriptionLength |-> Some(Len(transcription))]

\* lines 382-390
LogEntryOf(h, finalState, transcription) ==
    [recordingId         |-> Some(recordings[h].id),
     createdAt           |-> Some(recordings[h].createdAt),
     audioLengthSeconds  |-> finalState.audioLengthSeconds,
     inputTokens         |-> finalState.inputTokens,
     outputTokens        |-> finalState.outputTokens,
     thoughtsTokens      |-> finalState.thoughtsTokens,
     transcriptionLength |-> Some(Len(transcription))]

RemoveAt(s, i) == SubSeq(s, 1, i - 1) \o SubSeq(s, i + 1, Len(s))

\* The stream ends: lines 366-391, in statement order.
streamEnded(h, i) ==
    LET transcription == frames[h][i].transcription
        finalState == Get(transcriptionState[h])
    IN  /\ transcriptionState' = [transcriptionState EXCEPT ![h] =
               Some(Finished(finalState, transcription, None))]
        /\ txtFiles' = Write(txtFiles, txtPath(h), transcription)
        /\ log' = Append(log, JSONStringify(LogEntryOf(h, finalState, transcription)))
        /\ hist' = [hist EXCEPT ![h].outcome = "ok",
                                ![h].ended = @ + 1,
                                ![h].io = @ \o << "end", "writeFile", "appendFile" >>]

StreamEnd(h, i) ==
    /\ i \in 1..Len(frames[h])
    /\ frames[h][i].pc = "stream"
    /\ streamEnded(h, i)
    /\ frames' = [frames EXCEPT ![h] = RemoveAt(@, i)]
    /\ UNCHANGED << now, uuidCalls, state, view, recordings, status, abortSignal,
                    recorder, mp3Files, loader >>

ErrorText == "Error: transcription failed"

\* Mutants of the catch of lines 392-406: the partial transcript is written,
\* or a log line is appended, as after a stream that ended.
streamRaisedWritesFile(h, i) ==
    LET transcription == frames[h][i].transcription
        finalState == Get(transcriptionState[h])
    IN  /\ transcriptionState' = [transcriptionState EXCEPT ![h] =
               Some(Finished(finalState, transcription, Some(ErrorText)))]
        /\ txtFiles' = Write(txtFiles, txtPath(h), transcription)
        /\ hist' = [hist EXCEPT ![h].outcome = "error",
                                ![h].io = @ \o << "writeFile" >>]
        /\ UNCHANGED log

streamRaisedAppendsLog(h, i) ==
    LET transcription == frames[h][i].transcription
        finalState == Get(transcriptionState[h])
    IN  /\ transcriptionState' = [transcriptionState EXCEPT ![h] =
               Some(Finished(finalState, transcription, Some(ErrorText)))]
        /\ log' = Append(log, JSONStringify(LogEntryOf(h, finalState, transcription)))
        /\ hist' = [hist EXCEPT ![h].outcome = "error",
                                ![h].io = @ \o << "appendFile" >>]
        /\ UNCHANGED txtFiles

\* Mutant of the catch of lines 392-406: the failure ends every transcription
\* that is running
streamRaisedFailsAll(h, i) ==
    /\ transcriptionState' =
           [g \in DOMAIN transcriptionState |->
               IF g = h
               THEN Some(Finished(Get(transcriptionState[h]), frames[h][i].transcription,
                                  Some(ErrorText)))
               ELSE IF IsSome(transcriptionState[g]) /\ ~Get(transcriptionState[g]).finished
               THEN Some(Finished(Get(transcriptionState[g]),
                                  Get(transcriptionState[g]).transcription, Some(ErrorText)))
               ELSE transcriptionState[g]]
    /\ hist' = [hist EXCEPT ![h].outcome = "error"]
    /\ UNCHANGED << txtFiles, log >>

\* The stream, or the call that opens it, throws: the catch of lines 392-406.
streamRaised(h, i) ==
    LET transcription == frames[h][i].transcription
        finalState == Get(transcriptionState[h])
    IN  /\ transcriptionState' = [transcriptionState EXCEPT ![h] =
               Some(Finished(finalState, transcription, Some(ErrorText)))]
        /\ hist' = [hist EXCEPT ![h].outcome = "error"]
        /\ UNCHANGED << txtFiles, log >>

StreamRaise(h, i) ==
    /\ i \in 1..Len(frames[h])
    /\ streamRaised(h, i)
    /\ frames' = [frames EXCEPT ![h] = RemoveAt(@, i)]
    /\ UNCHANGED << now, uuidCalls, state, view, recordings, status, abortSignal,
                    recorder, mp3Files, loader >>

----------------------------------------------------------------------------
(* The child closes and the continuation of finishPromise runs             *)
(* (lines 440-444, 270-276).                                               *)

\* Mutant of lines 96-105: the Recording is added to the history and stays
\* the current one
onStoppedKeepsCurrent(h) ==
    IF state.currentRecording = Some(h)
    THEN /\ ReadClock
         /\ state' = [recordingItemKey  |-> uuidv7(now', uuidCalls),
                      currentRecording  |-> state.currentRecording,
                      stoppedRecordings |-> << h >> \o state.stoppedRecordings]
         /\ uuidCalls' = uuidCalls + 1
    ELSE UNCHANGED << now, state, uuidCalls >>

\* onStopped (lines 96-105)
onStopped(h) ==
    IF state.currentRecording = Some(h)
    THEN /\ ReadClock
         /\ state' = [recordingItemKey  |-> uuidv7(now', uuidCalls),
                      currentRecording  |-> None,
                      stoppedRecordings |-> << h >> \o state.stoppedRecordings]
         /\ uuidCalls' = uuidCalls + 1
    ELSE UNCHANGED << now, state, uuidCalls >>

\* Mutant of lines 270-276: transcribe() before the audio file is written
finishPromiseThenTranscribesFirst(h) ==
    /\ status' = [status EXCEPT ![h] = "stopped"]
    /\ onStopped(h)
    /\ transcribe(h, mp3Files)
    /\ mp3Files' = Write(mp3Files, mp3Path(h), getBuffer(h))

\* Mutant of lines 270-276: transcribe() is not called
finishPromiseThenWithoutTranscribe(h) ==
    /\ status' = [status EXCEPT ![h] = "stopped"]
    /\ onStopped(h)
    /\ mp3Files' = Write(mp3Files, mp3Path(h), getBuffer(h))
    /\ UNCHANGED << transcriptionState, frames, hist >>

finishPromiseThen(h) ==
    /\ status' = [status EXCEPT ![h] = "stopped"]
    /\ onStopped(h)
    /\ mp3Files' = Write(mp3Files, mp3Path(h), getBuffer(h))
    /\ transcribe(h, mp3Files')

CaptureComplete(h) ==
    /\ recordings[h].fresh
    /\ Get(recorder[h]).child = "running"
    /\ recorder' = [recorder EXCEPT ![h] = Some([Get(@) EXCEPT !.child = "closed"])]
    /\ finishPromiseThen(h)
    /\ UNCHANGED << view, recordings, abortSignal, log, txtFiles, loader >>

----------------------------------------------------------------------------
(* RecordingController.deleteRecording (lines 112-119)                     *)

\* Mutant of line 114: === for !==
deleteRecordingKeepsMatching(h) ==
    state' = [state EXCEPT !.stoppedRecordings =
                 SelectSeq(@, LAMBDA r : recordings[r].id = recordings[h].id)]

deleteRecording(h) ==
    state' = [state EXCEPT !.stoppedRecordings =
                 SelectSeq(@, LAMBDA r : recordings[r].id # recordings[h].id)]

\* The "Delete" action of a stopped recording's item (lines 156, 577-583)
Delete(h) ==
    /\ InList(view, h)
    /\ deleteRecording(h)
    /\ UNCHANGED << now, uuidCalls, view, objectVars, diskVars, loader >>

----------------------------------------------------------------------------
(* RecordingController.loadPastRecordings (lines 163-236)                  *)

\* lines 171-180: the lines that parse, in order
RECURSIVE ParseLines(_)
ParseLines(lines) ==
    IF lines = << >> THEN << >>
    ELSE LET entry == JSONParse(Head(lines))
         IN  (IF IsSome(entry) THEN << Get(entry) >> ELSE << >>)
             \o ParseLines(Tail(lines))

\* lines 183-192: Date.now() - 60 * 60 * 24 * 1000 is named oneHourAgo
IsRecent(entry, oneHourAgo) ==
    /\ Timestamp(entry).kind = "number"
    /\ Timestamp(entry).n >= oneHourAgo

RecentEntries(logEntries, oneHourAgo) ==
    SelectSeq(logEntries, LAMBDA entry : IsRecent(entry, oneHourAgo))

\* Mutant of the comparator of lines 195-199: timeA - timeB
RECURSIVE InsertSortedOldestFirst(_, _)
InsertSortedOldestFirst(sorted, entry) ==
    IF sorted = << >> THEN << entry >>
    ELSE IF Timestamp(Head(sorted)).n - Timestamp(entry).n > 0
    THEN << entry >> \o sorted
    ELSE << Head(sorted) >> \o InsertSortedOldestFirst(Tail(sorted), entry)

\* lines 195-199: Array.prototype.sort is stable; the comparator timeB - timeA
\* puts a before b when a's timestamp is the larger.
RECURSIVE InsertSorted(_, _)
InsertSorted(sorted, entry) ==
    IF sorted = << >> THEN << entry >>
    ELSE IF Timestamp(entry).n - Timestamp(Head(sorted)).n > 0
    THEN << entry >> \o sorted
    ELSE << Head(sorted) >> \o InsertSorted(Tail(sorted), entry)

RECURSIVE SortNewestFirst(_)
SortNewestFirst(entries) ==
    IF entries = << >> THEN << >>
    ELSE InsertSorted(SortNewestFirst(SubSeq(entries, 1, Len(entries) - 1)),
                      entries[Len(entries)])

\* recentEntries.slice(0, 10) (line 200)
Slice(entries, n) == SubSeq(entries, 1, IF Len(entries) < n THEN Len(entries) ELSE n)

\* line 200
LatestCount == 10

LatestEntries(lines, time) ==
    Slice(SortNewestFirst(RecentEntries(ParseLines(lines), time - DayMs)), LatestCount)

\* `/tmp/vxg/${entry.recordingId}.txt` and .mp3 (lines 206-207)
UndefinedPath == << "u", "n", "d", "e", "f", "i", "n", "e", "d" >>
EntryPath(entry) ==
    IF IsSome(Prop(entry, "recordingId")) THEN entry.recordingId ELSE UndefinedPath

\* Recording.fromLogEntry (lines 286-303) with the constructor's other branch
\* (lines 278-282)
FromLogEntryRecording(logEntry) ==
    [id        |-> EntryPath(logEntry),
     key       |-> EntryPath(logEntry),
     createdAt |-> Timestamp(logEntry).n,
     fresh     |-> FALSE]

FromLogEntryState(logEntry, transcriptionText) ==
    [finished           |-> TRUE,
     transcription      |-> transcriptionText,
     error              |-> None,
     latestThought      |-> None,
     inputTokens        |-> Prop(logEntry, "inputTokens"),
     outputTokens       |-> Prop(logEntry, "outputTokens"),
     thoughtsTokens     |-> Prop(logEntry, "thoughtsTokens"),
     audioLengthSeconds |-> Prop(logEntry, "audioLengthSeconds")]

LoaderIdle == [pc |-> "timer", latestEntries |-> << >>, i |-> 0,
               recordings |-> << >>, transcriptionText |-> << >>]

\* Mutant of lines 224-229: the loaded Recordings replace the list
updateStateReplaces(loaded) ==
    state' = [state EXCEPT !.stoppedRecordings = loaded]

\* lines 224-229
updateState(loaded) ==
    state' = [state EXCEPT !.stoppedRecordings = loaded \o @]

\* The loop of lines 204-222 goes on to entry i, or ends and the state is
\* updated; loaded are the Recordings made so far.
LoaderGoesOn(i, loaded) ==
    IF i <= Len(loader.latestEntries)
    THEN /\ loader' = [loader EXCEPT !.pc = "readTxt", !.i = i, !.recordings = loaded,
                                     !.transcriptionText = << >>]
         /\ UNCHANGED state
    ELSE /\ loader' = [loader EXCEPT !.pc = "done", !.i = i, !.recordings = loaded,
                                     !.transcriptionText = << >>]
         /\ updateState(loaded)

\* Mutant of the catch of lines 218-221: the error leaves the loop and reaches
\* the catch of lines 232-235
skipEntryAbortsRecovery ==
    /\ loader' = [loader EXCEPT !.pc = "done", !.transcriptionText = << >>]
    /\ UNCHANGED state

\* A read of the entry's files fails: the catch of lines 218-221 skips the entry
skipEntry == LoaderGoesOn(loader.i + 1, loader.recordings)

\* setTimeout of lines 455-457 fires: loadPastRecordings() starts to read the log
LoadStart ==
    /\ loader.pc = "timer"
    /\ loader' = [loader EXCEPT !.pc = "readLog"]
    /\ UNCHANGED << now, uuidCalls, state, view, objectVars, diskVars >>

\* readFile(LOG_PATH) settles (line 165)
LoadReadLog ==
    /\ loader.pc = "readLog"
    /\ ReadClock
    /\ IF log = << >>
       THEN /\ loader' = [loader EXCEPT !.pc = "done"]
            /\ UNCHANGED state
       ELSE LET latestEntries == LatestEntries(log, now')
            IN  IF latestEntries = << >>
                THEN /\ loader' = [loader EXCEPT !.pc = "done"]
                     /\ updateState(<< >>)
                ELSE /\ loader' = [loader EXCEPT !.pc = "readTxt", !.i = 1,
                                                 !.latestEntries = latestEntries]
                     /\ UNCHANGED state
    /\ UNCHANGED << uuidCalls, view, objectVars, diskVars >>

\* readFile(txtPath, "utf8") settles (line 210)
LoadReadTxt ==
    /\ loader.pc = "readTxt"
    /\ LET entry == loader.latestEntries[loader.i]
       IN  IF Exists(txtFiles, EntryPath(entry))
           THEN /\ loader' = [loader EXCEPT !.pc = "readMp3",
                                  !.transcriptionText = txtFiles[EntryPath(entry)]]
                /\ UNCHANGED state
           ELSE skipEntry
    /\ UNCHANGED << now, uuidCalls, view, objectVars, diskVars >>

\* readFile(mp3Path) settles (line 213)
LoadReadMp3 ==
    /\ loader.pc = "readMp3"
    /\ LET entry == loader.latestEntries[loader.i]
       IN  IF Exists(mp3Files, EntryPath(entry))
           THEN /\ recordings' = Append(recordings, FromLogEntryRecording(entry))
                /\ status' = Append(status, "stopped")
                /\ transcriptionState' = Append(transcriptionState,
                       Some(FromLogEntryState(entry, loader.transcriptionText)))
                /\ abortSignal' = Append(abortSignal, FALSE)
                /\ recorder' = Append(recorder, None)
                /\ frames' = Append(frames, << >>)
                /\ hist' = Append(hist, NoHistory)
                /\ LoaderGoesOn(loader.i + 1,
                                Append(loader.recordings, Len(recordings) + 1))
           ELSE /\ skipEntry
                /\ UNCHANGED objectVars
    /\ UNCHANGED << now, uuidCalls, view, diskVars >>

----------------------------------------------------------------------------
(* Inputs: stream elements, and the log and files that earlier runs left.  *)

Chunk(text, thought, prompt, candidates, thoughts) ==
    [text                 |-> text,
     thought              |-> thought,
     promptTokenCount     |-> prompt,
     candidatesTokenCount |-> candidates,
     thoughtsTokenCount   |-> thoughts]

TokenCounts == {0, 1, 2}

\* Stream elements of the full system
Chunks == { Chunk(Some(<< "P" >>), None, Some(1), None, None) }

\* Stream elements of the single-Recording specification
StreamChunks ==
    { Chunk(Some(t), None, None, None, None) : t \in {<< >>, << "P" >>, << "a", "r" >>} }
    \cup { Chunk(None, None, Some(n), None, None) : n \in TokenCounts }
    \cup { Chunk(Some(<< "l", "o" >>), None, Some(2), Some(1), Some(1)),
           Chunk(None, None, None, Some(2), Some(0)),
           Chunk(None, Some("Drafting"), None, None, Some(2)),
           Chunk(None, None, None, None, None) }

PriorText == << "h", "i" >>

PriorLine(id, createdAt) ==
    JSONStringify([recordingId         |-> id,
                   createdAt           |-> createdAt,
                   audioLengthSeconds  |-> Some(audioLengthSeconds(32000)),
                   inputTokens         |-> Some(7),
                   outputTokens        |-> None,
                   thoughtsTokens      |-> None,
                   transcriptionLength |-> Some(Len(PriorText))])

\* Ids of earlier recordings whose transcript or audio file is gone
NoTxtId == uuidv7(StartTime - 40, 107)
NoMp3Id == uuidv7(StartTime - 30, 108)
GarbageId == << "x", "y", "z" >>

\* A recent line where createdAt wins over the (older) time in the id, and one
\* in an older format: no createdAt, the time is the id's
RecentLines ==
    { PriorLine(Some(uuidv7(StartTime - 500, 101)), Some(StartTime - 50)),
      PriorLine(Some(uuidv7(StartTime - 60, 102)), None) }

\* Exactly a day old when recovery starts at StartTime, too old a tick later
BoundaryLine == PriorLine(Some(uuidv7(StartTime - DayMs, 105)), Some(StartTime - DayMs))

\* Recent lines whose transcript or audio file is gone
NoFileLines ==
    { PriorLine(Some(NoTxtId), Some(StartTime - 40)),
      PriorLine(Some(NoMp3Id), Some(StartTime - 30)) }

\* Lines that go before and after the recent lines that fill a log
CutLines == RecentLines \cup {BoundaryLine} \cup NoFileLines \cup {MalformedLine}

FreeLines ==
    CutLines
    \cup { \* older than a day
           PriorLine(Some(uuidv7(StartTime - DayMs - 1, 104)), Some(StartTime - DayMs - 1)),
           \* no timestamp to be had
           PriorLine(Some(GarbageId), None),
           PriorLine(None, None) }

\* j-th of the recent lines that fill a log: not in timestamp order, with ties
FillLine(j) ==
    LET t == StartTime - 100 + ((j * 3) % 4)
    IN  PriorLine(Some(uuidv7(t, j)), Some(t))

FillLines(n) == [j \in 1..n |-> FillLine(j)]

FreeSeqs(lines, n) == UNION { [1..k -> lines] : k \in 0..n }

\* Logs for recovery: up to MaxFree lines of any kind; or almost ten or ten
\* recent lines with up to MaxFree lines before and after them that are
\* malformed or can be among the newest ten.
RecoveryLogs ==
    FreeSeqs(FreeLines, MaxFree)
    \cup { ab[1] \o FillLines(n) \o ab[2] :
             ab \in { x \in FreeSeqs(CutLines, MaxFree) \X FreeSeqs(CutLines, MaxFree) :
                         Len(x[1]) + Len(x[2]) <= MaxFree },
             n \in {MaxFill - 1, MaxFill} }

\* Logs the full system starts with
StartLogs ==
    { << >>,
      << PriorLine(Some(uuidv7(StartTime - 500, 101)), Some(StartTime - 50)) >> }

IdsOf(lines) ==
    { lines[i].value.recordingId :
        i \in {j \in 1..Len(lines) : "recordingId" \in DOMAIN lines[j].value} }

Init(logs) ==
    /\ now = StartTime
    /\ uuidCalls = 1
    /\ state = [recordingItemKey  |-> uuidv7(StartTime, 0),
                currentRecording  |-> None,
                stoppedRecordings |-> << >>]
    /\ view = Rendered(state)
    /\ recordings = << >>
    /\ status = << >>
    /\ transcriptionState = << >>
    /\ abortSignal = << >>
    /\ recorder = << >>
    /\ frames = << >>
    /\ hist = << >>
    /\ log \in logs
    /\ txtFiles = [id \in IdsOf(log) \ {NoTxtId} |-> PriorText]
    /\ mp3Files = [id \in IdsOf(log) \ {NoMp3Id} |-> 32000]
    /\ loader = LoaderIdle

----------------------------------------------------------------------------
(* The full system: every action, two Recordings, recovery running beside  *)
(* them.  The specifications below it take one part of it each.            *)

Next ==
    \/ Render
    \/ (Cardinality(FreshObjects) < MaxRecordings /\ StartRecording)
    \/ \E h \in Objects : Stop(h)
    \/ \E h \in Objects : \E bytes \in DataSizes : StdoutData(h, bytes)
    \/ \E h \in Objects : CaptureComplete(h)
    \/ \E h \in Objects : Retry(h)
    \/ \E h \in Objects : \E i \in 1..Len(frames[h]) : StreamOpen(h, i)
    \/ \E h \in Objects : \E i \in 1..Len(frames[h]) : \E c \in Chunks :
            Delivered < MaxChunks /\ StreamChunk(h, i, c)
    \/ \E h \in Objects : \E i \in 1..Len(frames[h]) : StreamEnd(h, i)
    \/ \E h \in Objects : \E i \in 1..Len(frames[h]) : StreamRaise(h, i)
    \/ \E h \in Objects : Delete(h)
    \/ LoadStart
    \/ LoadReadLog
    \/ LoadReadTxt
    \/ LoadReadMp3

Spec == Init(StartLogs) /\ [][Next]_vars

----------------------------------------------------------------------------
(* One Recording from startRecording() on, with every kind of stream       *)
(* element, within one millisecond; no recovery.                           *)

NextOne ==
    \/ Render
    \/ (recordings = << >> /\ now' = now /\ StartRecording)
    \/ \E h \in Objects : Stop(h)
    \/ \E h \in Objects : \E bytes \in DataSizes : StdoutData(h, bytes)
    \/ \E h \in Objects : now' = now /\ CaptureComplete(h)
    \/ \E h \in Objects : Retry(h)
    \/ \E h \in Objects : \E i \in 1..Len(frames[h]) : StreamOpen(h, i)
    \/ \E h \in Objects : \E i \in 1..Len(frames[h]) : \E c \in StreamChunks :
            Delivered < MaxStreamChunks /\ StreamChunk(h, i, c)
    \/ \E h \in Objects : \E i \in 1..Len(frames[h]) : StreamEnd(h, i)
    \/ \E h \in Objects : \E i \in 1..Len(frames[h]) : StreamRaise(h, i)
    \/ \E h \in Objects : Delete(h)

SpecOne == Init({<< >>}) /\ [][NextOne]_vars

\* The child closes once it was sent SIGINT (lines 437-444): sox ends on the
\* interrupt, and the close event then runs the continuation of lines 270-276.
CaptureExits(h) ==
    /\ h \in Objects
    /\ Get(recorder[h]).sigints > 0
    /\ now' = now
    /\ CaptureComplete(h)

\* The stream of an attempt ends or raises (lines 339-365, 366, 392): the
\* call of line 339 and the for await loop are not waited for for ever.
StreamFinishes(h) ==
    /\ h \in Objects
    /\ \E i \in 1..Len(frames[h]) : StreamEnd(h, i) \/ StreamRaise(h, i)

\* SpecOne, whose Recording is object 1, with a child that exits after the
\* interrupt and streams that end or raise.
SpecOneFair == SpecOne /\ WF_vars(CaptureExits(1)) /\ WF_vars(StreamFinishes(1))

----------------------------------------------------------------------------
(* Recovery alone, from every input log.                                   *)

NextRecovery ==
    \/ LoadStart
    \/ LoadReadLog
    \/ LoadReadTxt
    \/ LoadReadMp3

SpecRecovery == Init(RecoveryLogs) /\ [][NextRecovery]_vars

----------------------------------------------------------------------------
(* Recovery, and Retry on the Recordings it has put in the list.           *)

NextRecovered ==
    \/ Render
    \/ \E h \in Objects : Retry(h)
    \/ LoadStart
    \/ LoadReadLog
    \/ LoadReadTxt
    \/ LoadReadMp3

SpecRecovered == Init(RecoveryLogs) /\ [][NextRecovered]_vars

----------------------------------------------------------------------------
(* The registry: Recordings are started, stopped, completed and deleted    *)
(* while recovery runs; the transcription service has not answered yet.    *)

\* Logs the registry starts with: none, one line, or the two lines that a
\* Recording with one successful Retry leaves
RegistryLogs ==
    StartLogs
    \cup { << PriorLine(Some(uuidv7(StartTime - 500, 101)), Some(StartTime - 50)),
              PriorLine(Some(uuidv7(StartTime - 500, 101)), Some(StartTime - 50)) >> }

NextRegistry ==
    \/ Render
    \/ (Cardinality(FreshObjects) < MaxRecordings /\ StartRecording)
    \/ \E h \in Objects : Stop(h)
    \/ \E h \in Objects : CaptureComplete(h)
    \/ \E h \in Objects : Delete(h)
    \/ LoadStart
    \/ LoadReadLog
    \/ LoadReadTxt
    \/ LoadReadMp3

SpecRegistry == Init(RegistryLogs) /\ [][NextRegistry]_vars

----------------------------------------------------------------------------
(* Two Recordings and their transcriptions, within one millisecond and     *)
(* with silent captures; no recovery.                                      *)

NextTwo ==
    \/ Render
    \/ (Cardinality(FreshObjects) < MaxRecordings /\ now' = now /\ StartRecording)
    \/ \E h \in Objects : Stop(h)
    \/ \E h \in Objects : now' = now /\ CaptureComplete(h)
    \/ \E h \in Objects : Retry(h)
    \/ \E h \in Objects : \E i \in 1..Len(frames[h]) : StreamOpen(h, i)
    \/ \E h \in Objects : \E i \in 1..Len(frames[h]) : \E c \in Chunks :
            Delivered < MaxChunks /\ StreamChunk(h, i, c)
    \/ \E h \in Objects : \E i \in 1..Len(frames[h]) : StreamEnd(h, i)
    \/ \E h \in Objects : \E i \in 1..Len(frames[h]) : StreamRaise(h, i)
    \/ \E h \in Objects : Delete(h)

SpecTwo == Init({<< >>}) /\ [][NextTwo]_vars

----------------------------------------------------------------------------
(* Claims.                                                                 *)

IsPrefix(a, b) == Len(a) <= Len(b) /\ SubSeq(b, 1, Len(a)) = a

\* The text deltas of the elements, in order
RECURSIVE ConcatTexts(_)
ConcatTexts(chunks) ==
    IF chunks = << >> THEN << >>
    ELSE (IF IsSome(Head(chunks).text) THEN Get(Head(chunks).text) ELSE << >>)
         \o ConcatTexts(Tail(chunks))

\* The last value that any element reports for a counter, None when none does
RECURSIVE LastReported(_, _)
LastReported(chunks, counter) ==
    IF chunks = << >> THEN None
    ELSE IF IsSome(chunks[Len(chunks)][counter]) THEN chunks[Len(chunks)][counter]
    ELSE LastReported(SubSeq(chunks, 1, Len(chunks) - 1), counter)

InFlight(h) == IsSome(transcriptionState[h]) /\ ~Get(transcriptionState[h]).finished

\* C1: status only moves recording -> stopping (by stop()), recording -> stopped
\* or stopping -> stopped (by capture completion); it never moves backwards,
\* stop() never produces stopped, and stopped stays stopped.
C1_StatusMonotonic ==
    [][\A h \in Objects :
          /\ status'[h] # status[h] =>
                \/ status[h] = "recording" /\ status'[h] = "stopping" /\ Stop(h)
                \/ /\ status[h] \in {"recording", "stopping"}
                   /\ status'[h] = "stopped"
                   /\ CaptureComplete(h)
          /\ Stop(h) /\ status[h] # "stopped" => status'[h] # "stopped"
          /\ status[h] = "stopped" => status'[h] = "stopped"]_vars

\* A Recording that was stopped by stop() and whose capture then completed
C1_Witness ==
    \E h \in FreshObjects :
        status[h] = "stopped" /\ abortSignal[h] /\ Get(recorder[h]).sigints = 1

\* C2: stop() on a Recording whose status is stopping or stopped changes
\* nothing: not status, the transcription state, the registry state or the
\* abort signal, and no second SIGINT is sent; nor does any other step abort a
\* Recording that is no longer recording.
C2_StopIsNoOp ==
    [][\A h \in FreshObjects :
          status[h] # "recording" =>
              /\ Stop(h) => UNCHANGED << status, transcriptionState, state,
                                         abortSignal, recorder >>
              /\ abortSignal'[h] = abortSignal[h]
              /\ Get(recorder'[h]).sigints = Get(recorder[h]).sigints]_vars

\* The user can still press "Stop Recording" on a Recording that has stopped
C2_Witness ==
    \E h \in FreshObjects :
        /\ view.currentRecording = Some(h)
        /\ status[h] = "stopped"
        /\ abortSignal[h]

\* C3: transcribe() while the current attempt is unfinished changes nothing,
\* and no Recording ever has two streams in flight.
C3_OneStreamInFlight ==
    /\ [](\A h \in Objects :
            /\ Len(frames[h]) <= 1
            /\ InFlight(h) <=> Len(frames[h]) = 1)
    /\ [][\A h \in Objects :
            Retry(h) /\ InFlight(h) => UNCHANGED << transcriptionState, frames >>]_vars

\* Retry is offered for a Recording whose stream has delivered an element and
\* not ended
C3_Witness ==
    \E h \in FreshObjects :
        /\ InList(view, h)
        /\ InFlight(h)
        /\ Len(frames[h]) = 1
        /\ frames[h][1].pc = "stream"
        /\ hist[h].chunks # << >>

\* C4: when the stream has ended, each of inputTokens, outputTokens and
\* thoughtsTokens is the last value that any element reported for it, 0
\* included, and is absent only if no element reported it.
C4_CountersAreLastReported ==
    \A h \in FreshObjects :
        hist[h].outcome = "ok" =>
            LET final == Get(transcriptionState[h])
            IN  /\ final.inputTokens = LastReported(hist[h].chunks, "promptTokenCount")
                /\ final.outputTokens = LastReported(hist[h].chunks, "candidatesTokenCount")
                /\ final.thoughtsTokens = LastReported(hist[h].chunks, "thoughtsTokenCount")

\* C5: when the stream ends normally the transcription is the concatenation of
\* the text deltas in order, and while the attempt runs each published text
\* extends the one before.
C5_TextIsConcatenation ==
    /\ [](\A h \in FreshObjects :
            hist[h].outcome \in {"running", "ok"} =>
                Get(transcriptionState[h]).transcription = ConcatTexts(hist[h].chunks))
    /\ [][\A h \in FreshObjects :
            InFlight(h) /\ InFlight(h)' =>
                IsPrefix(Get(transcriptionState[h]).transcription,
                         Get(transcriptionState'[h]).transcription)]_vars

\* The stream of the scenario: "P", then "ar", then the end
C5_Witness ==
    \E h \in FreshObjects :
        /\ hist[h].outcome = "ok"
        /\ Len(hist[h].chunks) = 2
        /\ Get(transcriptionState[h]).transcription = << "P", "a", "r" >>

\* C6: when the stream raises, the attempt ends finished with the error text and
\* with the text deltas received before; the step writes no transcript file and
\* appends no log line.
C6_FailureKeepsPartialText ==
    /\ [](\A h \in FreshObjects :
            hist[h].outcome = "error" =>
                /\ Get(transcriptionState[h]).finished
                /\ Get(transcriptionState[h]).error = Some(ErrorText)
                /\ Get(transcriptionState[h]).transcription = ConcatTexts(hist[h].chunks))
    /\ [][\A h \in FreshObjects :
            hist[h].outcome = "running" /\ hist'[h].outcome = "error" =>
                log' = log /\ txtFiles' = txtFiles]_vars

\* The stream raised after "P", in a first attempt: there is no transcript file
C6_Witness ==
    \E h \in FreshObjects :
        /\ hist[h].outcome = "error"
        /\ hist[h].attempts = 1
        /\ Get(transcriptionState[h]).transcription = << "P" >>
        /\ ~Exists(txtFiles, txtPath(h))
        /\ log = << >>

\* The lines of the log that carry this recordingId
LinesOf(id) ==
    SelectSeq(log, LAMBDA line : line.parses /\ Prop(line.value, "recordingId") = Some(id))

C8_LogAfterTranscriptAfterEnd ==
    /\ [](\A h \in FreshObjects :
            /\ hist[h].io \in {<< >>, << "end", "writeFile", "appendFile" >>}
            /\ hist[h].io # << >> <=> hist[h].outcome = "ok")
    /\ [][/\ log' # log =>
               \E h \in FreshObjects :
                   /\ hist[h].outcome = "running" /\ hist'[h].outcome = "ok"
                   /\ Exists(txtFiles', txtPath(h))
                   /\ txtFiles'[txtPath(h)] = ConcatTexts(hist[h].chunks)
          /\ txtFiles' # txtFiles =>
               \E h \in FreshObjects :
                   /\ hist[h].outcome = "running" /\ hist'[h].outcome = "ok"
                   /\ frames[h][1].pc = "stream"]_vars

\* An attempt ended normally and wrote both; a Retry then failed
C8_Witness ==
    \E h \in FreshObjects :
        /\ hist[h].outcome = "error"
        /\ hist[h].attempts = 2
        /\ Len(log) = 1
        /\ Exists(txtFiles, txtPath(h))

\* C9: every attempt whose stream ends normally appends exactly one line, with
\* the Recording's id and the length of the text that is in the transcript
\* file and in the finished transcription state; no step changes or removes a
\* line of the log.
C9_OneLogLinePerSuccess ==
    /\ [](\A h \in FreshObjects :
            /\ Len(LinesOf(recordings[h].id)) = hist[h].ended
            /\ hist[h].outcome = "ok" =>
                 LET lines == LinesOf(recordings[h].id)
                     last == lines[Len(lines)].value
                 IN  /\ log[Len(log)].value = last
                     /\ last.transcriptionLength = Len(txtFiles[txtPath(h)])
                     /\ last.transcriptionLength =
                            Len(Get(transcriptionState[h]).transcription)
                     /\ Get(transcriptionState[h]).finished)
    /\ [][IsPrefix(log, log') /\ Len(log') <= Len(log) + 1]_vars

\* Two attempts ended normally: two lines, the later one for a text of 2
C9_Witness ==
    \E h \in FreshObjects :
        /\ hist[h].ended = 2
        /\ Len(log) = 2
        /\ hist[h].outcome = "ok"
        /\ log[1].value.transcriptionLength = 1
        /\ log[2].value.transcriptionLength = 2

\* The lines of the log that parse and whose effective timestamp (createdAt
\* if present, else the one in the id) is a number not older than a day at time
EligibleLines(time) ==
    { i \in 1..Len(log) :
        /\ log[i].parses
        /\ Timestamp(log[i].value).kind = "number"
        /\ Timestamp(log[i].value).n >= time - DayMs }

EffectiveTimestamp(i) == Timestamp(log[i].value).n

HasFiles(i) ==
    /\ Exists(txtFiles, EntryPath(log[i].value))
    /\ Exists(mp3Files, EntryPath(log[i].value))

\* C10: the Recordings that loadPastRecordings produces are all not older than
\* 24 hours at recovery time, are at most 10, are the most recent eligible
\* entries by effective timestamp (each has fewer than 10 eligible entries
\* newer than it, no newer eligible entry whose files exist is left out, and
\* none at all when there are at most 10),
\* and are in descending order of effective timestamp.
C10_RecoveryNewestTen ==
    loader.pc \in {"readTxt", "readMp3", "done"} =>
        \A eligible \in {EligibleLines(now)} :
        \A ts \in {[i \in eligible |-> EffectiveTimestamp(i)]} :
        \A produced \in {[k \in 1..Len(loader.recordings) |->
                            recordings[loader.recordings[k]]]} :
            /\ Len(produced) <= LatestCount
            /\ \A k \in 1..Len(produced) :
                 /\ produced[k].createdAt >= now - DayMs
                 /\ k > 1 => produced[k - 1].createdAt >= produced[k].createdAt
                 /\ \E i \in eligible :
                        /\ EntryPath(log[i].value) = produced[k].id
                        /\ ts[i] = produced[k].createdAt
                 /\ Cardinality({i \in eligible : ts[i] > produced[k].createdAt})
                        < LatestCount
                 /\ loader.pc = "done" =>
                        \A i \in eligible :
                            HasFiles(i) /\ ts[i] > produced[k].createdAt =>
                                \E j \in 1..Len(produced) :
                                    /\ produced[j].id = EntryPath(log[i].value)
                                    /\ produced[j].createdAt = ts[i]
            /\ loader.pc = "done" /\ Cardinality(eligible) <= LatestCount =>
                   \A i \in eligible :
                       HasFiles(i) =>
                           \E j \in 1..Len(produced) :
                               /\ produced[j].id = EntryPath(log[i].value)
                               /\ produced[j].createdAt = ts[i]
            /\ loader.pc = "done" => state.stoppedRecordings = loader.recordings

\* Recovery from a log with a line older than a day and eleven eligible ones
\* has produced ten Recordings
C10_Witness ==
    /\ loader.pc = "done"
    /\ Len(loader.recordings) = LatestCount
    /\ Cardinality(EligibleLines(now)) > LatestCount
    /\ \E i \in 1..Len(log) : log[i].parses /\ i \notin EligibleLines(now)
    /\ \E i \in EligibleLines(now) : "createdAt" \notin DOMAIN log[i].value

\* C11: a malformed line, or an entry whose transcript or audio file is missing,
\* makes recovery skip that entry only: when recovery is done every other entry
\* whose files are there and that is among the 10 most recent eligible ones
\* (fewer than 10 others are as recent as it) is in stoppedRecordings; and
\* recovery is done only when it has been through all of the latest entries.
C11_RecoverySkipsOnlyTheEntry ==
    /\ loader.pc \in {"readTxt", "readMp3"} => loader.i \in 1..Len(loader.latestEntries)
    /\ loader.pc = "done" => loader.i \notin 1..Len(loader.latestEntries)
    /\ loader.pc = "done" =>
          \A eligible \in {EligibleLines(now)} :
          \A ts \in {[i \in eligible |-> EffectiveTimestamp(i)]} :
              \A i \in eligible :
                  /\ HasFiles(i)
                  /\ Cardinality({j \in eligible \ {i} : ts[j] >= ts[i]}) < LatestCount
                  => \E k \in 1..Len(state.stoppedRecordings) :
                         LET r == recordings[state.stoppedRecordings[k]]
                         IN  /\ r.id = EntryPath(log[i].value)
                             /\ r.createdAt = ts[i]
                             /\ status[state.stoppedRecordings[k]] = "stopped"

\* Recovery from a log with a malformed line, an entry without its transcript
\* and nine good entries is done and has the nine
C11_Witness ==
    /\ loader.pc = "done"
    /\ \E i \in 1..Len(log) : ~log[i].parses
    /\ \E i \in EligibleLines(now) : ~Exists(txtFiles, EntryPath(log[i].value))
    /\ Cardinality(EligibleLines(now)) = LatestCount
    /\ Len(state.stoppedRecordings) = LatestCount - 1

\* C12: deleteRecording of a Recording whose id is not in stoppedRecordings
\* leaves stoppedRecordings as it is; of one whose id is there, it removes
\* every entry with that id and keeps the others in their order; either way
\* currentRecording, recordingItemKey, the log and the files stay as they are.
C12_DeleteRemovesOnlyTheId ==
    [][\A h \in Objects :
          Delete(h) =>
              LET id == recordings[h].id
                  old == state.stoppedRecordings
                  new == state'.stoppedRecordings
                  keep == {j \in 1..Len(old) : recordings[old[j]].id # id}
              IN  /\ keep = 1..Len(old) => new = old
                  /\ Len(new) = Cardinality(keep)
                  /\ \A j \in keep : new[Cardinality({i \in keep : i <= j})] = old[j]
                  /\ state'.currentRecording = state.currentRecording
                  /\ state'.recordingItemKey = state.recordingItemKey
                  /\ UNCHANGED << log, txtFiles, mp3Files, objectVars >>]_vars

\* A recovered Recording has been deleted from a list that still has two
\* others, and the list on screen still offers to delete it
C12_Witness ==
    /\ loader.pc = "done"
    /\ \E h \in Objects \ FreshObjects :
          /\ ~InList(state, h)
          /\ InList(view, h)
          /\ Len(state.stoppedRecordings) >= 2

\* C13: in every reachable state stoppedRecordings is in newest-first order:
\* createdAt never increases along the list.
C13_StoppedNewestFirst ==
    \A k \in 2..Len(state.stoppedRecordings) :
        recordings[state.stoppedRecordings[k - 1]].createdAt
            >= recordings[state.stoppedRecordings[k]].createdAt

IsSuffix(a, b) == Len(a) <= Len(b) /\ SubSeq(b, Len(b) - Len(a) + 1, Len(b)) = a

\* C14: recovery only prepends: the step that ends recovery puts the loaded
\* Recordings before the list as it is then, which stays whole and in order;
\* no step of recovery changes currentRecording or recordingItemKey, and no
\* earlier step of it changes the list.
C14_RecoveryOnlyPrepends ==
    [][loader' # loader =>
          /\ state'.currentRecording = state.currentRecording
          /\ state'.recordingItemKey = state.recordingItemKey
          /\ IsSuffix(state.stoppedRecordings, state'.stoppedRecordings)
          /\ loader'.pc # "done" => state' = state
          /\ loader'.pc = "done" =>
                state'.stoppedRecordings = loader'.recordings \o state.stoppedRecordings
          /\ \A k \in 1..Len(loader'.recordings) :
                ~InList(state, loader'.recordings[k])]_vars

\* Recovery is done: two loaded Recordings stand before a Recording whose
\* capture completed before recovery was done, and another is being recorded
C14_Witness ==
    /\ loader.pc = "done"
    /\ Len(loader.recordings) = 2
    /\ \E h \in FreshObjects : state.stoppedRecordings = loader.recordings \o << h >>
    /\ IsSome(state.currentRecording)

\* C15: a transcription failure in one Recording changes the transcription
\* state of that Recording only: the registry state, the log, the files, the
\* status of every Recording and everything of every other Recording stay as
\* they are; and while a failed attempt is the Recording's last, Start
\* Recording, Delete and the steps of the other Recordings' transcriptions
\* can still be taken.
C15_FailureIsContained ==
    /\ [][\A h \in Objects :
            hist[h].outcome = "running" /\ hist'[h].outcome = "error" =>
                /\ UNCHANGED << state, view, log, txtFiles, mp3Files, status,
                                recordings, abortSignal, recorder, loader >>
                /\ \A g \in Objects \ {h} :
                      /\ transcriptionState'[g] = transcriptionState[g]
                      /\ frames'[g] = frames[g]
                      /\ hist'[g] = hist[g]]_vars
    /\ [](\A h \in Objects :
            hist[h].outcome = "error" =>
                /\ ~IsSome(view.currentRecording) => ENABLED StartRecording
                /\ \A g \in Objects : InList(view, g) => ENABLED Delete(g)
                /\ \A g \in Objects \ {h} : \A i \in 1..Len(frames[g]) :
                      /\ ENABLED StreamRaise(g, i)
                      /\ frames[g][i].pc = "await" => ENABLED StreamOpen(g, i)
                      /\ frames[g][i].pc = "stream" => ENABLED StreamEnd(g, i))

\* A transcription has failed while that of the other Recording is running
C15_Witness ==
    \E h \in FreshObjects : \E g \in FreshObjects \ {h} :
        /\ hist[h].outcome = "error"
        /\ Get(transcriptionState[h]).error = Some(ErrorText)
        /\ InFlight(g)
        /\ frames[g] # << >>
        /\ InList(state, h) /\ InList(state, g)

\* A Recording made from a log entry is stopped, and its transcription state
\* is finished, without error, and holds the transcript text and the entry's
\* figures
RecoveredAsLogged(h) ==
    /\ status[h] = "stopped"
    /\ IsSome(transcriptionState[h])
    /\ Get(transcriptionState[h]).finished
    /\ Get(transcriptionState[h]).error = None
    /\ Get(transcriptionState[h]).transcription = txtFiles[recordings[h].id]
    /\ \E i \in 1..Len(log) :
          /\ log[i].parses
          /\ EntryPath(log[i].value) = recordings[h].id
          /\ Timestamp(log[i].value).n = recordings[h].createdAt
          /\ Get(transcriptionState[h]).inputTokens = Prop(log[i].value, "inputTokens")
          /\ Get(transcriptionState[h]).outputTokens = Prop(log[i].value, "outputTokens")
          /\ Get(transcriptionState[h]).thoughtsTokens = Prop(log[i].value, "thoughtsTokens")
          /\ Get(transcriptionState[h]).audioLengthSeconds =
                 Prop(log[i].value, "audioLengthSeconds")

\* C16: a Recording made from a log entry is stopped with a finished,
\* error-free transcription state taken from the entry and the transcript; its
\* audio file exists, and a Retry on it starts a new attempt: the state
\* becomes in-progress.
C16_RecoveredCanRetry ==
    \A h \in Objects \ FreshObjects :
        /\ RecoveredAsLogged(h)
        /\ Exists(mp3Files, mp3Path(h))
        /\ InList(view, h) => ENABLED (Retry(h) /\ InFlight(h)')

\* How often h is in a list
Occurrences(list, h) == Cardinality({k \in 1..Len(list) : list[k] = h})

\* The capture of h completes in this step: its child closes
Completes(h) ==
    /\ IsSome(recorder[h])
    /\ Get(recorder[h]).child = "running"
    /\ Get(recorder'[h]).child = "closed"

\* C17: every Recording made by startRecording() whose capture completes is
\* moved, in that step, out of currentRecording and onto the head of
\* stoppedRecordings, and that is the only step that puts it on the list: it
\* gets there exactly once.
C17_CompletedMovesToHistoryOnce ==
    /\ [][\A h \in FreshObjects :
            /\ Completes(h) =>
                  /\ state'.currentRecording # Some(h)
                  /\ state'.stoppedRecordings = << h >> \o state.stoppedRecordings
            /\ Occurrences(state'.stoppedRecordings, h)
                  > Occurrences(state.stoppedRecordings, h) => Completes(h)]_vars
    /\ [](\A h \in FreshObjects : Occurrences(state.stoppedRecordings, h) <= 1)

\* An unfinished state as an attempt starts with: no text, no counters
StartsAfresh(ts) ==
    /\ IsSome(ts)
    /\ ~Get(ts).finished
    /\ Get(ts).transcription = << >>
    /\ Get(ts).error = None
    /\ Get(ts).inputTokens = None
    /\ Get(ts).outputTokens = None
    /\ Get(ts).thoughtsTokens = None

IsFinished(ts) == IsSome(ts) /\ Get(ts).finished

----------------------------------------------------------------------------
\* C19: once stop() has taken effect on a fresh Recording (status stopping),
\* and given that the child exits after the interrupt and that every stream
\* ends or raises, the Recording comes to status stopped with a transcription
\* state that has finished = TRUE.
C19_StoppedRecordingFinishes ==
    (1 \in Objects /\ status[1] = "stopping")
        ~> (/\ 1 \in Objects
            /\ status[1] = "stopped"
            /\ IsSome(transcriptionState[1])
            /\ Get(transcriptionState[1]).finished)

C19_Witness ==
    /\ 1 \in Objects
    /\ abortSignal[1]
    /\ Get(recorder[1]).sigints = 1
    /\ status[1] = "stopped"
    /\ IsSome(transcriptionState[1])
    /\ Get(transcriptionState[1]).finished

----------------------------------------------------------------------------
\* C20: in every state of the registry, between handlers, every Recording
\* of stoppedRecordings has status stopped, the current Recording, if there
\* is one, has status recording or stopping, and the current Recording is
\* not in stoppedRecordings.
C20_RegistryAgreesWithStatus ==
    /\ \A i \in 1..Len(state.stoppedRecordings) :
            status[state.stoppedRecordings[i]] = "stopped"
    /\ IsSome(state.currentRecording) =>
            /\ status[Get(state.currentRecording)] \in {"recording", "stopping"}
            /\ ~InList(state, Get(state.currentRecording))

\* a Recording that was stopped and one that was recovered are in the history
\* while another one is being stopped
C20_Witness ==
    /\ IsSome(state.currentRecording)
    /\ status[Get(state.currentRecording)] = "stopping"
    /\ \E i, j \in 1..Len(state.stoppedRecordings) :
            /\ recordings[state.stoppedRecordings[i]].fresh
            /\ ~recordings[state.stoppedRecordings[j]].fresh

----------------------------------------------------------------------------
\* C21: stoppedRecordings never holds two entries with the same recording
\* id, whatever Recordings were made and retried (each successful attempt
\* appends a log line for the id) and recovered from the log afterwards.
C21_NoTwoEntriesWithOneId ==
    \A i, j \in 1..Len(state.stoppedRecordings) :
        recordings[state.stoppedRecordings[i]].id = recordings[state.stoppedRecordings[j]].id
            => i = j

====
